---- MODULE Spec2Model ----
(***************************************************************************)
(* Model of the JSON-over-stdio adapter template utils/rust/main.rs.       *)
(*                                                                         *)
(* One run of `main` is one behaviour: the process reads all of standard   *)
(* input, parses the Request envelope, compares function_name with the     *)
(* target name, decodes params into Params, calls the target function and  *)
(* prints one Response.  Every `?` in main is a branch that returns Err    *)
(* from main: the Rust runtime then prints the error on standard error and *)
(* the process exits with code 1.                                          *)
(*                                                                         *)
(* The template is instantiated for a target function of two integer       *)
(* arguments x, y with an integer result, so that serialising the Response *)
(* (lines 41, 58) cannot fail.  The decoders follow what the derived       *)
(* serde Deserialize implementations of lines 5-16 do with a JSON value:   *)
(* a struct is decoded from an object (unknown keys are ignored, a missing *)
(* key is an error) or from an array (positionally, exact length).         *)
(***************************************************************************)
EXTENDS Integers, Sequences, FiniteSets, TLC

\* ---------------------------------------------------------------- bounds
MaxVal == 1          \* JSON numbers in params range over 0..MaxVal
MaxArrayLen == 3     \* longest JSON array used as params

\* ------------------------------------------------- template instantiation
TargetName == "hash"            \* {{ function_name }}
OtherName == "nope"             \* some function name that is not the target
Arguments == <<"x", "y">>       \* {{ arguments }}: declared order of Params
ArgNames == {Arguments[i] : i \in 1..Len(Arguments)}
ExtraKey == "z"                 \* a key that is not a declared argument

\* ------------------------------------------------------------ JSON values
Null == [kind |-> "null"]
Num(n) == [kind |-> "number", val |-> n]
Str(s) == [kind |-> "string", text |-> s]
Obj(f) == [kind |-> "object", fields |-> f]
Arr(e) == [kind |-> "array", elems |-> e]

\* Option<T> and Result<T, E>
None == <<>>
Some(v) == <<v>>
Ok(v) == [ok |-> TRUE, val |-> v]
Err(e) == [ok |-> FALSE, err |-> e]

\* ------------------------------------------------------- inputs of a run
ParamScalars == {Num(n) : n \in 0..MaxVal} \cup {Str("s")}
ParamKeys == ArgNames \cup {ExtraKey}
ParamsObjects == {Obj(f) : f \in UNION {[K -> ParamScalars] : K \in SUBSET ParamKeys}}
ParamsArrays == {Arr(e) : e \in UNION {[1..n -> ParamScalars] : n \in 0..MaxArrayLen}}
ParamsValues == ParamsObjects \cup ParamsArrays \cup {Null, Num(0)}

NameValues == {Str(TargetName), Str(OtherName), Num(0)}

\* A top-level object: function_name and params each present or not, and
\* possibly one more key the Request struct does not declare.
EnvelopeObject(fn, p, extra) ==
    Obj([k \in ({"function_name" : i \in 1..Len(fn)} \cup {"params" : i \in 1..Len(p)}
                 \cup {"extra" : i \in 1..Len(extra)}) |->
            CASE k = "function_name" -> fn[1]
              [] k = "params" -> p[1]
              [] OTHER -> extra[1]])

EnvelopeObjects ==
    {EnvelopeObject(fn, p, extra) :
        fn \in {None} \cup {Some(v) : v \in NameValues},
        p \in {None} \cup {Some(v) : v \in ParamsValues},
        extra \in {None, Some(Null)}}

\* A top-level array: a prefix of <<function_name, params, one more element>>.
EnvelopeArrays ==
    {Arr(<<>>)} \cup {Arr(<<fn>>) : fn \in NameValues}
    \cup {Arr(<<fn, p>>) : fn \in NameValues, p \in ParamsValues}
    \cup {Arr(<<fn, p, Null>>) : fn \in NameValues, p \in ParamsValues}

Documents == EnvelopeObjects \cup EnvelopeArrays \cup {Null}

\* Standard input: bytes that are not UTF-8, text that is not JSON, or a
\* JSON document.
InvalidUtf8 == [utf8 |-> FALSE, doc |-> None]
NotJson == [utf8 |-> TRUE, doc |-> None]
Json(v) == [utf8 |-> TRUE, doc |-> Some(v)]
StdinValues == {InvalidUtf8, NotJson} \cup {Json(v) : v \in Documents}

\* ------------------------------------------------------------- decoders
\* io::stdin().read_to_string(&mut input): fails on bytes that are not UTF-8.
ReadToString(s) ==
    IF s.utf8 THEN Ok(s.doc) ELSE Err("stream did not contain valid UTF-8")

\* serde_json::from_str::<Request>(&input)
RequestFromStr(text) ==
    IF text = None THEN Err("syntax error")
    ELSE LET v == text[1] IN
      CASE v.kind = "object" ->
             LET f == v.fields IN
             IF "function_name" \in DOMAIN f /\ f["function_name"].kind # "string"
             THEN Err("invalid type")
             ELSE IF "function_name" \notin DOMAIN f
             THEN Err("missing field function_name")
             ELSE IF "params" \notin DOMAIN f
             THEN Err("missing field params")
             ELSE Ok([function_name |-> f["function_name"].text,
                      params |-> f["params"]])
        [] v.kind = "array" ->
             LET e == v.elems IN
             IF Len(e) = 0 THEN Err("invalid length")
             ELSE IF e[1].kind # "string" THEN Err("invalid type")
             ELSE IF Len(e) = 1 THEN Err("invalid length")
             ELSE IF Len(e) > 2 THEN Err("trailing characters")
             ELSE Ok([function_name |-> e[1].text, params |-> e[2]])
        [] OTHER -> Err("invalid type")

\* Variant: Params fields marked #[serde(default)], so that a missing
\* argument decodes as 0.
ParamsFromValueDefault(v) ==
    CASE v.kind = "object" ->
           LET f == v.fields IN
           IF \E k \in ArgNames : k \in DOMAIN f /\ f[k].kind # "number"
           THEN Err("invalid type")
           ELSE Ok([k \in ArgNames |-> IF k \in DOMAIN f THEN f[k].val ELSE 0])
      [] v.kind = "array" ->
           LET e == v.elems IN
           IF \E i \in 1..Len(Arguments) : i <= Len(e) /\ e[i].kind # "number"
           THEN Err("invalid type")
           ELSE IF Len(e) > Len(Arguments)
           THEN Err("invalid length")
           ELSE Ok([k \in ArgNames |->
                      LET i == CHOOSE j \in 1..Len(Arguments) : Arguments[j] = k
                      IN IF i <= Len(e) THEN e[i].val ELSE 0])
      [] OTHER -> Err("invalid type")

\* serde_json::from_value::<Params>(request.params)
ParamsFromValue(v) ==
    CASE v.kind = "object" ->
           LET f == v.fields IN
           IF \E k \in ArgNames : k \in DOMAIN f /\ f[k].kind # "number"
           THEN Err("invalid type")
           ELSE IF \E k \in ArgNames : k \notin DOMAIN f
           THEN Err("missing field")
           ELSE Ok([k \in ArgNames |-> f[k].val])
      [] v.kind = "array" ->
           LET e == v.elems IN
           IF \E i \in 1..Len(Arguments) : i <= Len(e) /\ e[i].kind # "number"
           THEN Err("invalid type")
           ELSE IF Len(e) # Len(Arguments)
           THEN Err("invalid length")
           ELSE Ok([k \in ArgNames |->
                      e[CHOOSE i \in 1..Len(Arguments) : Arguments[i] = k].val])
      [] OTHER -> Err("invalid type")

\* Variant: the comparison of line 35 inverted (== for !=).
NameDiffersInverted(request) == request.function_name = TargetName

\* request.function_name != "{{ function_name }}"
NameDiffers(request) == request.function_name # TargetName

\* The external target function rust::{{ function_name }}: any function of
\* its arguments; this one tells its two arguments apart.
Target(x, y) == 2 * x + y + 1

\* Variant: the arguments of line 50 passed in the opposite order.
CallArgumentsSwapped(params) == <<params[Arguments[2]], params[Arguments[1]]>>

\* The positional call of line 50: params.x, params.y in declared order.
CallArguments(params) == <<params[Arguments[1]], params[Arguments[2]]>>

\* ------------------------------------------------------------ responses
UnsupportedResponse ==
    [status |-> "error", data |-> None,
     error_message |-> Some("Unsupported function")]

\* Variant: the success Response also carries a message.
SuccessResponseWithMessage(result) ==
    [status |-> "success", data |-> Some(result), error_message |-> Some("ok")]

SuccessResponse(result) ==
    [status |-> "success", data |-> Some(result), error_message |-> None]

\* serde_json::to_string(&response): the JSON document of a Response.
ToJson(response) ==
    Obj([k \in {"status", "data", "error_message"} |->
           CASE k = "status" -> Str(response.status)
             [] k = "data" ->
                  IF response.data = None THEN Null ELSE Num(response.data[1])
             [] OTHER ->
                  IF response.error_message = None THEN Null
                  ELSE Str(response.error_message[1])])

\* ---------------------------------------------------------------- state
VARIABLES
    stdin,      \* what the caller supplies on standard input
    pc,         \* position of main
    input,      \* contents of the String `input` once read
    request,    \* Option<Request>
    params,     \* Option<Params>
    result,     \* Option<return value of the target function>
    stdout,     \* JSON documents printed on standard output
    stderr,     \* diagnostics printed on standard error
    exit_code,  \* None while running, Some(code) once the process has exited
    calls,      \* arguments of every call of the target function
    steps       \* the steps main has taken so far, in order

vars == <<stdin, pc, input, request, params, result, stdout, stderr,
          exit_code, calls, steps>>

Init ==
    /\ stdin \in StdinValues
    /\ pc = "read"
    /\ input = None
    /\ request = None
    /\ params = None
    /\ result = None
    /\ stdout = <<>>
    /\ stderr = <<>>
    /\ exit_code = None
    /\ calls = <<>>
    /\ steps = <<>>

\* main returns Err(e): the runtime reports e on standard error, exit code 1.
ReturnErr(e) ==
    /\ stderr' = Append(stderr, e)
    /\ exit_code' = Some(1)
    /\ pc' = "done"

\* main returns Ok(()): exit code 0.
ReturnOk ==
    /\ exit_code' = Some(0)
    /\ pc' = "done"

\* println!("{}", serde_json::to_string(&response)?)
Println(response) == stdout' = Append(stdout, ToJson(response))

\* lines 27-28, read succeeded
ReadOk ==
    /\ pc = "read"
    /\ ReadToString(stdin).ok
    /\ input' = ReadToString(stdin).val
    /\ pc' = "parse"
    /\ steps' = Append(steps, "read")
    /\ UNCHANGED <<stdin, request, params, result, stdout, stderr, exit_code, calls>>

\* lines 27-28, the `?` branch
ReadErr ==
    /\ pc = "read"
    /\ ~ReadToString(stdin).ok
    /\ ReturnErr(<<"io error", ReadToString(stdin).err>>)
    /\ steps' = Append(steps, "read")
    /\ UNCHANGED <<stdin, input, request, params, result, stdout, calls>>

\* lines 31-32, parse succeeded
ParseOk ==
    /\ pc = "parse"
    /\ RequestFromStr(input).ok
    /\ request' = Some(RequestFromStr(input).val)
    /\ pc' = "check"
    /\ steps' = Append(steps, "parse")
    /\ UNCHANGED <<stdin, input, params, result, stdout, stderr, exit_code, calls>>

\* Variant: a parse failure reported as an error Response, exit code 0.
ParseErrAsResponse ==
    /\ pc = "parse"
    /\ ~RequestFromStr(input).ok
    /\ Println([status |-> "error", data |-> None,
                error_message |-> Some("Failed to parse JSON request")])
    /\ ReturnOk
    /\ steps' = steps \o <<"parse", "print">>
    /\ UNCHANGED <<stdin, input, request, params, result, stderr, calls>>

\* lines 31-32, the map_err and `?` branch
ParseErr ==
    /\ pc = "parse"
    /\ ~RequestFromStr(input).ok
    /\ ReturnErr(<<"Failed to parse JSON request", RequestFromStr(input).err>>)
    /\ steps' = Append(steps, "parse")
    /\ UNCHANGED <<stdin, input, request, params, result, stdout, calls>>

\* Variant: line 42 (return Ok(())) left out, main falls through to the decode.
NameMismatchFallsThrough ==
    /\ pc = "check"
    /\ NameDiffers(request[1])
    /\ Println(UnsupportedResponse)
    /\ pc' = "decode"
    /\ steps' = steps \o <<"check", "print">>
    /\ UNCHANGED <<stdin, input, request, params, result, stderr, exit_code, calls>>

\* lines 35-43, the name differs
NameMismatch ==
    /\ pc = "check"
    /\ NameDiffers(request[1])
    /\ Println(UnsupportedResponse)
    /\ ReturnOk
    /\ steps' = steps \o <<"check", "print">>
    /\ UNCHANGED <<stdin, input, request, params, result, stderr, calls>>

\* line 35, the name is the target's
NameMatch ==
    /\ pc = "check"
    /\ ~NameDiffers(request[1])
    /\ pc' = "decode"
    /\ steps' = Append(steps, "check")
    /\ UNCHANGED <<stdin, input, request, params, result, stdout, stderr, exit_code, calls>>

\* lines 46-47, decode succeeded
DecodeOk ==
    /\ pc = "decode"
    /\ ParamsFromValue(request[1].params).ok
    /\ params' = Some(ParamsFromValue(request[1].params).val)
    /\ pc' = "call"
    /\ steps' = Append(steps, "decode")
    /\ UNCHANGED <<stdin, input, request, result, stdout, stderr, exit_code, calls>>

\* Variant: the decode error dropped, main returns Ok(()) without printing.
DecodeErrIgnored ==
    /\ pc = "decode"
    /\ ~ParamsFromValue(request[1].params).ok
    /\ ReturnOk
    /\ steps' = Append(steps, "decode")
    /\ UNCHANGED <<stdin, input, request, params, result, stdout, stderr, calls>>

\* lines 46-47, the map_err and `?` branch
DecodeErr ==
    /\ pc = "decode"
    /\ ~ParamsFromValue(request[1].params).ok
    /\ ReturnErr(<<"Failed to parse parameters", ParamsFromValue(request[1].params).err>>)
    /\ steps' = Append(steps, "decode")
    /\ UNCHANGED <<stdin, input, request, params, result, stdout, calls>>

\* line 50
CallTarget ==
    /\ pc = "call"
    /\ LET args == CallArguments(params[1]) IN
         /\ calls' = Append(calls, args)
         /\ result' = Some(Target(args[1], args[2]))
    /\ pc' = "respond"
    /\ steps' = Append(steps, "call")
    /\ UNCHANGED <<stdin, input, request, params, stdout, stderr, exit_code>>

\* lines 53-60
Respond ==
    /\ pc = "respond"
    /\ Println(SuccessResponse(result[1]))
    /\ ReturnOk
    /\ steps' = Append(steps, "print")
    /\ UNCHANGED <<stdin, input, request, params, result, stderr, calls>>

Next ==
    \/ ReadOk
    \/ ReadErr
    \/ ParseOk
    \/ ParseErr
    \/ NameMismatch
    \/ NameMatch
    \/ DecodeOk
    \/ DecodeErr
    \/ CallTarget
    \/ Respond

Spec == Init /\ [][Next]_vars

\* ------------------------------------------------- vocabulary of the claims
\* These read the caller's input (stdin) and the observable outcome of the
\* run (stdout, exit_code, calls, steps); none of them uses the decoders.
Done == pc = "done"
ExitedWith(c) == exit_code = Some(c)

IsJsonDocument == stdin.utf8 /\ stdin.doc # None
IsJsonObject == IsJsonDocument /\ stdin.doc[1].kind = "object"
Envelope == stdin.doc[1].fields

\* valid JSON object with a string function_name and a params member
WellFormedEnvelope ==
    /\ IsJsonObject
    /\ "function_name" \in DOMAIN Envelope
    /\ Envelope["function_name"].kind = "string"
    /\ "params" \in DOMAIN Envelope

NamesTarget == WellFormedEnvelope /\ Envelope["function_name"].text = TargetName
NamesOther == WellFormedEnvelope /\ Envelope["function_name"].text # TargetName

ParamsIsObject == WellFormedEnvelope /\ Envelope["params"].kind = "object"
ParamsFields == Envelope["params"].fields

MissingField == ParamsIsObject /\ \E k \in ArgNames : k \notin DOMAIN ParamsFields
WrongType ==
    ParamsIsObject /\ \E k \in ArgNames \cap DOMAIN ParamsFields :
                          ParamsFields[k].kind # "number"
ExtraField == ParamsIsObject /\ DOMAIN ParamsFields \ ArgNames # {}
WellTypedParams ==
    ParamsIsObject /\ \A k \in ArgNames :
        k \in DOMAIN ParamsFields /\ ParamsFields[k].kind = "number"

\* The Response documents on standard output
Status(doc) == doc.fields["status"]
Data(doc) == doc.fields["data"]
ErrorMessage(doc) == doc.fields["error_message"]
NoSuccessResponse == \A i \in 1..Len(stdout) : Status(stdout[i]) # Str("success")

\* ------------------------------------------------------------------- C1
\* C1: a request that names the target function but whose params lack a
\* declared field or carry a wrong-typed value ends with exit code 0 and one
\* Response {status "error", data null, error_message non-null} on standard
\* output, and the target function is not called.
C1_DecodeFailureIsResponse ==
    (Done /\ NamesTarget /\ (MissingField \/ WrongType)) =>
        /\ ExitedWith(0)
        /\ Len(stdout) = 1
        /\ Status(stdout[1]) = Str("error")
        /\ Data(stdout[1]) = Null
        /\ ErrorMessage(stdout[1]) # Null
        /\ calls = <<>>

\* ------------------------------------------------------------------- C2
\* C2: a parsed request whose function_name is not the target name yields
\* exactly {status "error", data null, error_message "Unsupported function"}
\* and exit code 0, whatever params holds; params is never decoded and the
\* target function is never called.
C2_UnsupportedFunction ==
    (Done /\ request # None /\ request[1].function_name # TargetName) =>
        /\ stdout = <<Obj([status |-> Str("error"), data |-> Null,
                           error_message |-> Str("Unsupported function")])>>
        /\ ExitedWith(0)
        /\ params = None
        /\ calls = <<>>
        /\ \A i \in 1..Len(steps) : steps[i] \notin {"decode", "call"}

\* a run for another function whose params would not decode has printed
C2_Witness ==
    /\ Done /\ NamesOther /\ (MissingField \/ WrongType)
    /\ Len(stdout) = 1

\* ------------------------------------------------------------------- C3
\* C3: a request that names the target function with every declared field
\* present and a number yields {status "success", data = Target(x, y),
\* error_message null}, the target function having been called once with
\* (x, y) in declared order.
C3_SuccessRoundTrip ==
    (Done /\ NamesTarget /\ WellTypedParams) =>
        LET x == ParamsFields["x"].val
            y == ParamsFields["y"].val
        IN /\ calls = <<<<x, y>>>>
           /\ stdout = <<Obj([status |-> Str("success"),
                              data |-> Num(Target(x, y)),
                              error_message |-> Null])>>

\* a finished successful run whose two arguments differ
C3_Witness ==
    /\ Done /\ NamesTarget /\ WellTypedParams
    /\ ParamsFields["x"].val # ParamsFields["y"].val
    /\ Len(stdout) = 1

C5_ExactlyOneOf ==
    \A i \in 1..Len(stdout) :
        \/ /\ Status(stdout[i]) = Str("success")
           /\ Data(stdout[i]) # Null
           /\ ErrorMessage(stdout[i]) = Null
        \/ /\ Status(stdout[i]) = Str("error")
           /\ Data(stdout[i]) = Null
           /\ ErrorMessage(stdout[i]) # Null

\* a success Response has been printed
C5_Witness == Len(stdout) = 1 /\ Status(stdout[1]) = Str("success")

\* ------------------------------------------------------------------- C6
\* C6: every well-formed request envelope ends with exit code 0 and one
\* Response on standard output.
C6_WellFormedExitsZero ==
    (Done /\ WellFormedEnvelope) => (ExitedWith(0) /\ Len(stdout) = 1)

\* ------------------------------------------------------------------- C7
\* C7 as stated: a params object whose field set is not exactly the declared
\* argument names is a decode error: no Params, no call, no "success"
\* Response.
C7_ExactFieldSet ==
    (Done /\ NamesTarget /\ ParamsIsObject /\ DOMAIN ParamsFields # ArgNames) =>
        /\ params = None
        /\ calls = <<>>
        /\ NoSuccessResponse

\* C7 amended: a params object lacking a declared field or carrying a
\* wrong-typed value for one is a decode error (no Params, no call, no
\* "success" Response); a params object whose declared fields are all present
\* and numbers decodes, with or without undeclared fields, and the target
\* function is called once.
C7_MissingRejectedExtraIgnored ==
    (Done /\ NamesTarget /\ ParamsIsObject) =>
        /\ (MissingField \/ WrongType) =>
               (params = None /\ calls = <<>> /\ NoSuccessResponse)
        /\ WellTypedParams => (params # None /\ Len(calls) = 1)

\* a finished run whose params had an undeclared field and was decoded
C7_Witness ==
    /\ Done /\ NamesTarget /\ WellTypedParams /\ ExtraField
    /\ Len(calls) = 1

\* ------------------------------------------------------------------- C8
\* C8: a run that ends with a fault (non-zero exit code) ended while
\* reading and parsing the request envelope; no later step ends the process
\* with a fault.
C8_OnlyEnvelopeFault ==
    (Done /\ ~ExitedWith(0)) => steps[Len(steps)] \in {"read", "parse"}

\* The termination half of C8: main has no loop, so a run that keeps being
\* scheduled reaches the end of main.
FairSpec == Spec /\ WF_vars(Next)
Terminates == <>Done

\* ------------------------------------------------------------------- C9
\* C9: the steps of a run happen in the order read, parse, check, decode,
\* call, print; the target function is called at most once, and only after
\* the name matched and params decoded; a Response is printed last.
StepRank(s) ==
    CASE s = "read" -> 1 [] s = "parse" -> 2 [] s = "check" -> 3
      [] s = "decode" -> 4 [] s = "call" -> 5 [] OTHER -> 6

C9_StepOrder ==
    /\ \A i, j \in 1..Len(steps) : i < j => StepRank(steps[i]) < StepRank(steps[j])
    /\ Len(calls) <= 1
    /\ \A i \in 1..Len(steps) :
         /\ steps[i] = "decode" =>
               /\ \E j \in 1..(i - 1) : steps[j] = "check"
               /\ request[1].function_name = TargetName
         /\ steps[i] = "call" =>
               /\ \E j \in 1..(i - 1) : steps[j] = "decode"
               /\ request[1].function_name = TargetName
               /\ params # None
               /\ Len(calls) = 1
         /\ steps[i] = "print" => (i = Len(steps) /\ Done)
    /\ calls # <<>> => \E i \in 1..Len(steps) : steps[i] = "call"
    /\ stdout # <<>> => \E i \in 1..Len(steps) : steps[i] = "print"

\* the target function has been called and its Response printed
C9_Witness == Done /\ Len(calls) = 1 /\ steps[Len(steps)] = "print"

\* ------------------------------------------------------------------ C10
\* C10: a terminated run has printed at most one Response, and its exit
\* code is 0 exactly when it printed one.
C10_OneResponseIffExitZero ==
    Done =>
        /\ exit_code # None
        /\ Len(stdout) <= 1
        /\ ExitedWith(0) <=> Len(stdout) = 1
        /\ ~ExitedWith(0) <=> Len(stdout) = 0

\* a run that ended in the params decode error: exit code 1, nothing printed
C10_Witness ==
    /\ Done /\ ExitedWith(1) /\ stdout = <<>>
    /\ steps[Len(steps)] = "decode"

====
